---- MODULE Spec2Model ----
(***************************************************************************)
(* graphene_django_filter: the settings resolver (conf.py) and the input   *)
(* type declarations (input_types.py).                                     *)
(*                                                                         *)
(* Python values are written as strings ("True", "False", "and", ...), a   *)
(* dict as a function over its keys, an Optional[dict] as a tagged record, *)
(* a Settings object as a cell of heap addressed by an identity.         *)
(***************************************************************************)
EXTENDS Integers, FiniteSets, Sequences, TLC

VARIABLES
    connection_vendor,          \* django.db.connection.vendor at process start
    trigram_attr,               \* django_settings.GRAPHENE_DJANGO_FILTER_HAS_TRIGRAM_EXTENSION
    django_settings,            \* django_settings.GRAPHENE_DJANGO_FILTER (the host configuration)
    FIXED_SETTINGS,             \* conf.FIXED_SETTINGS
    heap,                       \* Settings objects: identity -> _user_settings
    settings,                   \* conf.settings: identity of the process-wide instance
    it_settings,                \* input_types.settings (0: module not imported yet)
    SearchVectorInputType,      \* fields of input_types.SearchVectorInputType
    SearchRankFilterInputType,  \* fields of input_types.SearchRankFilterInputType
    SearchQueryInputType,       \* fields of input_types.SearchQueryInputType
    reader_ref,                 \* a reader's reference to a Settings object (0: none held)
    last_signal,                \* the latest setting_changed signal for DJANGO_SETTINGS_KEY
    ret                         \* the latest operation and what it returned

vars == <<connection_vendor, trigram_attr, django_settings, FIXED_SETTINGS, heap,
          settings, it_settings, SearchVectorInputType, SearchRankFilterInputType,
          SearchQueryInputType, reader_ref, last_signal, ret>>

----------------------------------------------------------------------------
(* Bounds of the model *)

\* the largest number of entries of a user configuration mapping
MaxKeys == 1
\* the number of Settings objects that can be alive at once
MaxInstances == 4

----------------------------------------------------------------------------
(* Values *)

EmptyMapping == [k \in {} |-> ""]

DEFAULT_SETTINGS ==
    [FILTER_KEY |-> "filter", AND_KEY |-> "and", OR_KEY |-> "or", NOT_KEY |-> "not"]

DJANGO_SETTINGS_KEY == "GRAPHENE_DJANGO_FILTER"

FixedNames == {"IS_POSTGRESQL", "HAS_TRIGRAM_EXTENSION"}
DefaultNames == DOMAIN DEFAULT_SETTINGS
UnknownNames == {"BOGUS_KEY"}
\* the names get(name) is asked for
Names == FixedNames \cup DefaultNames \cup UnknownNames

\* the keys a user configuration mapping may hold: keys of the default set, a
\* key of the fixed set, a key of neither (FILTER_KEY and
\* HAS_TRIGRAM_EXTENSION are read, and never given a user value)
UserKeys == {"AND_KEY", "OR_KEY", "NOT_KEY", "IS_POSTGRESQL", "BOGUS_KEY"}

\* the value a user configuration mapping may give a key: "all_of" collides
\* with nothing, "and" is the default of AND_KEY, "value" a field of the query type
UserValues(k) ==
    CASE k = "AND_KEY" -> {"all_of"}
      [] k = "OR_KEY" -> {"and"}
      [] k = "NOT_KEY" -> {"value"}
      [] k \in FixedNames -> {"user"}
      [] OTHER -> {"bogus"}

AllUserValues == UNION {UserValues(k) : k \in UserKeys}

\* the user configuration mappings: dicts of at most MaxKeys entries
UserMappings ==
    UNION {{m \in [S -> AllUserValues] : \A k \in S : m[k] \in UserValues(k)} :
           S \in {T \in SUBSET UserKeys : Cardinality(T) <= MaxKeys}}

\* the settings other than the library's that setting_changed is sent for
OtherSettings == {"DEBUG"}

\* an Optional[dict]
None == [tag |-> "none", val |-> EmptyMapping]
Dict(m) == [tag |-> "dict", val |-> m]
\* a heap cell no object lives in
Free == [tag |-> "free", val |-> EmptyMapping]
OptionalMappings == {None} \cup {Dict(m) : m \in UserMappings}
\* the values setting_changed carries for another setting
OtherValues == {None, Dict(EmptyMapping)}

\* a host attribute that is not set
Unset == [set |-> FALSE, val |-> EmptyMapping]
Set(m) == [set |-> TRUE, val |-> m]
HostValues == {Unset} \cup {Set(m) : m \in UserMappings}

\* GRAPHENE_DJANGO_FILTER_HAS_TRIGRAM_EXTENSION: not set, or a bool
TrigramAttrValues ==
    {[set |-> FALSE, val |-> "False"], [set |-> TRUE, val |-> "False"],
     [set |-> TRUE, val |-> "True"]}

Vendors == {"postgresql", "sqlite"}

Ids == 1 .. MaxInstances

PyBool(b) == IF b THEN "True" ELSE "False"

NoType == [k \in {} |-> ""]
NoSignal == [seen |-> FALSE, value |-> None]
NoRet == [op |-> "start", via |-> "", name |-> "", raised |-> FALSE, value |-> "",
          type |-> NoType]

----------------------------------------------------------------------------
(* conf.py *)

\* get_fixed_settings(): the vendor test and getattr(django_settings, ..., False)
get_fixed_settings(vendor, attr) ==
    [IS_POSTGRESQL |-> PyBool(vendor = "postgresql"),
     HAS_TRIGRAM_EXTENSION |-> IF attr.set THEN attr.val ELSE "False"]

\* getattr(django_settings, DJANGO_SETTINGS_KEY, {})
HostMapping == IF django_settings.set THEN django_settings.val ELSE EmptyMapping

\* user_settings, were an unset mapping read as {} and not from the host
user_settings_empty(h, id) ==
    IF h[id].tag = "none" THEN [h EXCEPT ![id] = Dict(EmptyMapping)] ELSE h

\* Settings.user_settings: the heap after the property ran on object id
user_settings(h, id) ==
    IF h[id].tag = "none" THEN [h EXCEPT ![id] = Dict(HostMapping)] ELSE h

\* __getattr__, were the static default returned without a look at the user mapping
Settings_getattr_default_only(h, id, name) ==
    IF name \notin DOMAIN FIXED_SETTINGS /\ name \notin DOMAIN DEFAULT_SETTINGS
    THEN [raised |-> TRUE, value |-> "AttributeError", heap |-> h]
    ELSE IF name \in DOMAIN FIXED_SETTINGS
    THEN [raised |-> FALSE, value |-> FIXED_SETTINGS[name], heap |-> h]
    ELSE [raised |-> FALSE, value |-> DEFAULT_SETTINGS[name], heap |-> user_settings(h, id)]

\* __getattr__, were the user mapping looked at before the fixed settings
Settings_getattr_user_first(h, id, name) ==
    IF name \notin DOMAIN FIXED_SETTINGS /\ name \notin DOMAIN DEFAULT_SETTINGS
    THEN [raised |-> TRUE, value |-> "AttributeError", heap |-> h]
    ELSE LET h2 == user_settings(h, id)
             us == h2[id].val
         IN  IF name \in DOMAIN us
             THEN [raised |-> FALSE, value |-> us[name], heap |-> h2]
             ELSE IF name \in DOMAIN FIXED_SETTINGS
             THEN [raised |-> FALSE, value |-> FIXED_SETTINGS[name], heap |-> h2]
             ELSE [raised |-> FALSE, value |-> DEFAULT_SETTINGS[name], heap |-> h2]

\* __getattr__, were the name test left out and only a name found nowhere an error
Settings_getattr_no_name_test(h, id, name) ==
    IF name \in DOMAIN FIXED_SETTINGS
    THEN [raised |-> FALSE, value |-> FIXED_SETTINGS[name], heap |-> h]
    ELSE LET h2 == user_settings(h, id)
             us == h2[id].val
         IN  IF name \in DOMAIN us
             THEN [raised |-> FALSE, value |-> us[name], heap |-> h2]
             ELSE IF name \in DOMAIN DEFAULT_SETTINGS
             THEN [raised |-> FALSE, value |-> DEFAULT_SETTINGS[name], heap |-> h2]
             ELSE [raised |-> TRUE, value |-> "AttributeError", heap |-> h2]

\* Settings.__getattr__(name) on object id in heap h: the outcome and the heap after
Settings_getattr(h, id, name) ==
    IF name \notin DOMAIN FIXED_SETTINGS /\ name \notin DOMAIN DEFAULT_SETTINGS
    THEN [raised |-> TRUE, value |-> "AttributeError", heap |-> h]
    ELSE IF name \in DOMAIN FIXED_SETTINGS
    THEN [raised |-> FALSE, value |-> FIXED_SETTINGS[name], heap |-> h]
    ELSE LET h2 == user_settings(h, id)
             us == h2[id].val
         IN  IF name \in DOMAIN us
             THEN [raised |-> FALSE, value |-> us[name], heap |-> h2]
             ELSE [raised |-> FALSE, value |-> DEFAULT_SETTINGS[name], heap |-> h2]

\* Settings(user_settings): the identity of the new object, a cell not in use
NewId(h) == CHOOSE i \in Ids : h[i] = Free /\ \A j \in Ids : h[j] = Free => i <= j

\* The objects the program's names s (conf.settings), it (input_types.settings)
\* and rd (the reader's reference) refer to, with the identities renumbered in
\* that order; an object no name refers to is freed (reference counting).
\* Identities carry no meaning beyond which names share an object.
Live(h, s, it, rd) ==
    LET nit == IF it = 0 THEN 0 ELSE IF it = s THEN 1 ELSE 2
        nrd == IF rd = 0 THEN 0
               ELSE IF rd = s THEN 1
               ELSE IF rd = it THEN nit
               ELSE IF nit = 2 THEN 3 ELSE 2
    IN  [heap |-> [i \in Ids |-> IF i = 1 THEN h[s]
                                 ELSE IF i = nit THEN h[it]
                                 ELSE IF i = nrd THEN h[rd]
                                 ELSE Free],
         settings |-> 1, it_settings |-> nit, reader_ref |-> nrd]

\* __init__, were the argument dropped
Settings_init_no_argument(h, id, user) == [h EXCEPT ![id] = None]

\* Settings.__init__
Settings_init(h, id, user) == [h EXCEPT ![id] = user]

\* the reply of an operation, as the latest operation
Reply(op, via, name, raised, value, type) ==
    [op |-> op, via |-> via, name |-> name, raised |-> raised, value |-> value,
     type |-> type]

\* what getattr(obj, name) would return now, obj being object id
WouldReturn(id, name) ==
    LET r == Settings_getattr(heap, id, name)
    IN  [raised |-> r.raised, value |-> r.value]

\* reload_settings, were the setting's name not tested
reload_settings_any_setting(setting, value) ==
    /\ LET id == NewId(heap)
           live == Live(Settings_init(heap, id, value), id, it_settings, reader_ref)
       IN  /\ settings' = live.settings
           /\ heap' = live.heap
           /\ it_settings' = live.it_settings
           /\ reader_ref' = live.reader_ref
    /\ last_signal' = IF setting = DJANGO_SETTINGS_KEY
                      THEN [seen |-> TRUE, value |-> value] ELSE last_signal
    /\ ret' = Reply("reload_settings", "", setting, FALSE, "", NoType)
    /\ UNCHANGED <<connection_vendor, trigram_attr, django_settings, FIXED_SETTINGS,
                   SearchVectorInputType, SearchRankFilterInputType,
                   SearchQueryInputType>>

\* reload_settings, were the user mapping of the existing object replaced in place
reload_settings_in_place(setting, value) ==
    /\ IF setting = DJANGO_SETTINGS_KEY
       THEN /\ heap' = [heap EXCEPT ![settings] = value]
            /\ last_signal' = [seen |-> TRUE, value |-> value]
       ELSE UNCHANGED <<heap, last_signal>>
    /\ ret' = Reply("reload_settings", "", setting, FALSE, "", NoType)
    /\ UNCHANGED <<connection_vendor, trigram_attr, django_settings, FIXED_SETTINGS,
                   settings, it_settings, reader_ref, SearchVectorInputType,
                   SearchRankFilterInputType, SearchQueryInputType>>

\* reload_settings(setting, value), the receiver of setting_changed
reload_settings(setting, value) ==
    /\ IF setting = DJANGO_SETTINGS_KEY
       THEN LET id == NewId(heap)
                live == Live(Settings_init(heap, id, value), id, it_settings,
                             reader_ref)
            IN  /\ settings' = live.settings
                /\ heap' = live.heap
                /\ it_settings' = live.it_settings
                /\ reader_ref' = live.reader_ref
                /\ last_signal' = [seen |-> TRUE, value |-> value]
       ELSE UNCHANGED <<settings, heap, it_settings, reader_ref, last_signal>>
    /\ ret' = Reply("reload_settings", "", setting, FALSE, "", NoType)
    /\ UNCHANGED <<connection_vendor, trigram_attr, django_settings, FIXED_SETTINGS,
                   SearchVectorInputType, SearchRankFilterInputType,
                   SearchQueryInputType>>

\* setting_changed is sent: for the library's key with None or a mapping, or for
\* another setting
SettingChanged ==
    \/ \E value \in OptionalMappings : reload_settings(DJANGO_SETTINGS_KEY, value)
    \/ \E setting \in OtherSettings, value \in OtherValues :
           reload_settings(setting, value)

\* the host assigns or deletes django_settings.GRAPHENE_DJANGO_FILTER
SetDjangoSetting ==
    /\ \E v \in HostValues : django_settings' = v
    /\ ret' = Reply("configure", "", DJANGO_SETTINGS_KEY, FALSE, "", NoType)
    /\ UNCHANGED <<connection_vendor, trigram_attr, FIXED_SETTINGS, heap, settings,
                   it_settings, SearchVectorInputType, SearchRankFilterInputType,
                   SearchQueryInputType, reader_ref, last_signal>>

\* getattr(obj, name) where obj is conf.settings (via = "conf") or the object a
\* reader holds (via = "reader")
Get(via, name) ==
    LET id == IF via = "conf" THEN settings ELSE reader_ref
    IN  /\ id # 0
        /\ LET r == Settings_getattr(heap, id, name)
           IN  /\ heap' = r.heap
               /\ ret' = Reply("get", via, name, r.raised, r.value, NoType)
        /\ UNCHANGED <<connection_vendor, trigram_attr, django_settings,
                       FIXED_SETTINGS, settings, it_settings, SearchVectorInputType,
                       SearchRankFilterInputType, SearchQueryInputType, reader_ref,
                       last_signal>>

\* conf.settings.<name>
GetSetting == \E name \in Names : Get("conf", name)

\* a reader takes a reference to the current process-wide instance
\* (as from .conf import settings does) and keeps it
AcquireRef ==
    /\ reader_ref # settings
    /\ LET live == Live(heap, settings, it_settings, settings)
       IN  /\ reader_ref' = live.reader_ref
           /\ heap' = live.heap
    /\ ret' = Reply("acquire", "reader", "", FALSE, "", NoType)
    /\ UNCHANGED <<connection_vendor, trigram_attr, django_settings, FIXED_SETTINGS,
                   settings, it_settings, SearchVectorInputType,
                   SearchRankFilterInputType, SearchQueryInputType, last_signal>>

\* the reader reads <name> from the object it holds
ReaderGet == \E name \in Names : Get("reader", name)

----------------------------------------------------------------------------
(* input_types.py *)

\* a class attribute: the kind of its value and, for a field, its description
Attr(kind, description) == [kind |-> kind, description |-> description]

\* the kinds graphene mounts as input fields; any other attribute (a str, a
\* tuple) is left out of the type's fields
FieldKinds == {"InputField", "String", "Boolean", "Int", "Float"}

\* a dict display {k1: v1, k2: v2, ...}: a later entry replaces an earlier one
\* of the same key
RECURSIVE DictDisplay(_)
DictDisplay(items) ==
    IF items = <<>> THEN [k \in {} |-> Attr("", "")]
    ELSE LET n == Len(items)
         IN  (items[n][1] :> items[n][2]) @@ DictDisplay(SubSeq(items, 1, n - 1))

\* graphene.InputObjectType: the fields of a class with these attributes
InputObjectType(attrs) ==
    [k \in {a \in DOMAIN attrs : attrs[a].kind \in FieldKinds} |-> attrs[k].description]

\* class SearchVectorInputType: config ends in a comma
SearchVectorInputType_attrs ==
    DictDisplay(<<
        <<"__doc__", Attr("str", "Input type for creating the SearchVector object.")>>,
        <<"fields", Attr("InputField", "Field names of vector")>>,
        <<"config", Attr("tuple", "Vector config")>>,
        <<"weight", Attr("InputField", "Vector weight")>> >>)

\* class SearchRankFilterInputType: weights ends in a comma
SearchRankFilterInputType_attrs ==
    DictDisplay(<<
        <<"__doc__", Attr("str", "Input type for the full text search using the SearchRank object.")>>,
        <<"vector", Attr("InputField", "Search vector")>>,
        <<"query", Attr("InputField", "Search query")>>,
        <<"lookups", Attr("InputField", "Available lookups")>>,
        <<"weights", Attr("tuple", "Search rank weights")>>,
        <<"cover_density", Attr("Boolean", "Whether to include coverage density ranking")>>,
        <<"normalization", Attr("Int", "Search rank normalization")>> >>)

\* the factory, were the field names written into it
create_search_query_input_type_fixed_names(h, id) ==
    [type |-> InputObjectType(DictDisplay(<<
                <<"value", Attr("String", "Query value")>>,
                <<"config", Attr("InputField", "Query config")>>,
                <<"and", Attr("InputField", "And field")>>,
                <<"or", Attr("InputField", "Or field")>>,
                <<"not", Attr("InputField", "Not field")>> >>)),
     heap |-> user_settings(h, id)]

\* create_search_query_input_type(), reading the Settings object id: the type
\* and the heap after
create_search_query_input_type(h, id) ==
    LET a == Settings_getattr(h, id, "AND_KEY")
        o == Settings_getattr(a.heap, id, "OR_KEY")
        n == Settings_getattr(o.heap, id, "NOT_KEY")
    IN  [type |-> InputObjectType(DictDisplay(<<
                    <<"__doc__", Attr("str", "Input type for creating the SearchQuery object.")>>,
                    <<"value", Attr("String", "Query value")>>,
                    <<"config", Attr("InputField", "Query config")>>,
                    <<a.value, Attr("InputField", "And field")>>,
                    <<o.value, Attr("InputField", "Or field")>>,
                    <<n.value, Attr("InputField", "Not field")>> >>)),
         heap |-> n.heap]

\* import graphene_django_filter.input_types: from .conf import settings
\* binds the current instance, the classes are declared, the factory runs
ImportInputTypes ==
    /\ it_settings = 0
    /\ it_settings' = settings
    /\ SearchVectorInputType' = InputObjectType(SearchVectorInputType_attrs)
    /\ SearchRankFilterInputType' = InputObjectType(SearchRankFilterInputType_attrs)
    /\ LET r == create_search_query_input_type(heap, settings)
       IN  /\ SearchQueryInputType' = r.type
           /\ heap' = r.heap
           /\ ret' = Reply("import", "input_types", "", FALSE, "", r.type)
    /\ UNCHANGED <<connection_vendor, trigram_attr, django_settings, FIXED_SETTINGS,
                   settings, reader_ref, last_signal>>

\* a later call of create_search_query_input_type()
CallFactory ==
    /\ it_settings # 0
    /\ LET r == create_search_query_input_type(heap, it_settings)
       IN  /\ heap' = r.heap
           /\ ret' = Reply("create_search_query_input_type", "input_types", "",
                           FALSE, "", r.type)
    /\ UNCHANGED <<connection_vendor, trigram_attr, django_settings, FIXED_SETTINGS,
                   settings, it_settings, SearchVectorInputType,
                   SearchRankFilterInputType, SearchQueryInputType, reader_ref,
                   last_signal>>

----------------------------------------------------------------------------
(* The process *)

\* conf.py has been imported: FIXED_SETTINGS is computed, settings = Settings(None)
Init ==
    /\ connection_vendor \in Vendors
    /\ trigram_attr \in TrigramAttrValues
    /\ django_settings \in HostValues
    /\ FIXED_SETTINGS = get_fixed_settings(connection_vendor, trigram_attr)
    /\ heap = Settings_init([i \in Ids |-> Free], 1, None)
    /\ settings = 1
    /\ it_settings = 0
    /\ SearchVectorInputType = NoType
    /\ SearchRankFilterInputType = NoType
    /\ SearchQueryInputType = NoType
    /\ reader_ref = 0
    /\ last_signal = NoSignal
    /\ ret = NoRet

\* the settings resolver alone
Next ==
    \/ SetDjangoSetting
    \/ SettingChanged
    \/ GetSetting

Spec == Init /\ [][Next]_vars

\* one environment: PostgreSQL, the trigram flag not set
InitPostgres ==
    /\ Init
    /\ connection_vendor = "postgresql"
    /\ ~trigram_attr.set

\* the settings resolver and the input types module
NextTypes ==
    \/ SetDjangoSetting
    \/ SettingChanged
    \/ ImportInputTypes
    \/ CallFactory

SpecTypes == InitPostgres /\ [][NextTypes]_vars

\* the settings resolver and a reader that keeps a reference; every read is
\* the reader's (a read through conf.settings touches the reader's object
\* only while both names share it, and then as the reader's own read does)
NextReader ==
    \/ SetDjangoSetting
    \/ SettingChanged
    \/ AcquireRef
    \/ ReaderGet

SpecReader == InitPostgres /\ [][NextReader]_vars

----------------------------------------------------------------------------
(* Properties *)

\* the static default of a name of the default set
StaticDefault(name) ==
    CASE name = "FILTER_KEY" -> "filter"
      [] name = "AND_KEY" -> "and"
      [] name = "OR_KEY" -> "or"
      [] name = "NOT_KEY" -> "not"

\* a default-set name resolved against the mapping m
Resolved(m, name) == IF name \in DOMAIN m THEN m[name] ELSE StaticDefault(name)

\* the fixed values as the environment gives them at process start
FixedAtStart(name) ==
    IF name = "IS_POSTGRESQL"
    THEN (IF connection_vendor = "postgresql" THEN "True" ELSE "False")
    ELSE (IF trigram_attr.set THEN trigram_attr.val ELSE "False")

\* the latest operation was getattr(conf.settings, name) for a name of S
GotSetting(S) == ret.op = "get" /\ ret.via = "conf" /\ ret.name \in S

\* C1: get(name) for a name of the default set returns the value the active
\* user mapping gives the name when it is a key of the mapping, the static
\* default when it is not
C1_UserValueElseDefault ==
    GotSetting(DefaultNames) =>
        /\ ~ret.raised
        /\ heap[settings].tag = "dict"
        /\ ret.value = Resolved(heap[settings].val, ret.name)

\* C1 witness: a name of the default set was read that the user mapping holds
C1_Witness ==
    /\ GotSetting(DefaultNames)
    /\ ret.name \in DOMAIN heap[settings].val
    /\ ret.value # StaticDefault(ret.name)

\* C2: get("IS_POSTGRESQL") and get("HAS_TRIGRAM_EXTENSION") return the fixed
\* values computed at process start, whatever the user mapping holds and
\* whatever signals came before
C2_FixedValuesWin ==
    /\ FIXED_SETTINGS = [n \in FixedNames |-> FixedAtStart(n)]
    /\ GotSetting(FixedNames) => ~ret.raised /\ ret.value = FixedAtStart(ret.name)

\* C2 witness: a fixed name was read after a signal installed a user mapping
\* that gives the name another value
C2_Witness ==
    /\ GotSetting(FixedNames)
    /\ last_signal.seen
    /\ heap[settings].tag = "dict"
    /\ ret.name \in DOMAIN heap[settings].val
    /\ heap[settings].val[ret.name] # ret.value

\* C3: get(name) for a name in neither the fixed nor the default set fails
\* with AttributeError, also when the user mapping holds the name
C3_UnknownNameRaises ==
    GotSetting(Names \ (FixedNames \cup DefaultNames)) =>
        ret.raised /\ ret.value = "AttributeError"

\* C3 witness: an unknown name was read after a signal installed a user
\* mapping that holds the name
C3_Witness ==
    /\ GotSetting(UnknownNames)
    /\ last_signal.seen
    /\ heap[settings].tag = "dict"
    /\ ret.name \in DOMAIN heap[settings].val

\* C4: after a signal for the library's key with a mapping M, a get of a
\* default-set name through conf.settings returns M[name] when M holds the
\* name and the static default otherwise, until the next such signal
C4_ReloadResolvesAgainstNewMapping ==
    (GotSetting(DefaultNames) /\ last_signal.seen /\ last_signal.value.tag = "dict") =>
        /\ ~ret.raised
        /\ ret.value = Resolved(last_signal.value.val, ret.name)

\* C4 witness: AND_KEY read as "all_of" after a signal carrying AND_KEY = "all_of"
C4_Witness ==
    /\ GotSetting({"AND_KEY"})
    /\ last_signal.seen
    /\ last_signal.value = Dict("AND_KEY" :> "all_of")
    /\ ret.value = "all_of"

\* C5: a signal for another setting leaves conf.settings the same object, in
\* the same state, and every get(name) with the same result as before
C5_OtherSettingChangesNothing ==
    [][(ret'.op = "reload_settings" /\ ret'.name # DJANGO_SETTINGS_KEY) =>
          /\ settings' = settings
          /\ heap' = heap
          /\ last_signal' = last_signal
          /\ \A name \in Names : WouldReturn(settings, name)' = WouldReturn(settings, name)
      ]_vars

\* C5 witness: a signal for another setting arrived while a user mapping
\* installed by an earlier signal was active
C5_Witness ==
    /\ ret.op = "reload_settings"
    /\ ret.name \in OtherSettings
    /\ last_signal.seen
    /\ heap[settings].tag = "dict"
    /\ heap[settings].val # EmptyMapping

\* the names of the combinator fields of a query input type
CombinatorNames(type) ==
    {k \in DOMAIN type : type[k] \in {"And field", "Or field", "Not field"}}

\* the latest operation ran the query input type factory
FactoryRan == ret.op \in {"import", "create_search_query_input_type"}

\* C6: whenever the factory runs, the names of the combinator fields of the
\* type it returns are the values conf.settings gives AND_KEY, OR_KEY and
\* NOT_KEY at that moment
C6_FactoryNamesFollowSettings ==
    FactoryRan =>
        CombinatorNames(ret.type) =
            {WouldReturn(settings, k).value : k \in {"AND_KEY", "OR_KEY", "NOT_KEY"}}

\* C7: the declared fields of SearchVectorInputType are fields, config and
\* weight, those of SearchRankFilterInputType are vector, query, lookups,
\* weights, cover_density and normalization
C7_DeclaredFieldsAsListed ==
    it_settings # 0 =>
        /\ DOMAIN SearchVectorInputType = {"fields", "config", "weight"}
        /\ DOMAIN SearchRankFilterInputType =
               {"vector", "query", "lookups", "weights", "cover_density",
                "normalization"}

\* C8 as stated: after a signal for the library's key with None, every get of
\* a default-set name returns the static default, whatever the host
\* configuration holds
C8_NoneMeansDefaults ==
    (GotSetting(DefaultNames) /\ last_signal.seen /\ last_signal.value.tag = "none") =>
        ret.value = StaticDefault(ret.name)

\* C8 as amended: after a signal for the library's key with None, the first
\* get of a default-set name reads the host configuration's mapping as it is
\* then (an empty mapping when the host has none) and the object keeps it;
\* every get of a default-set name until the next such signal returns that
\* mapping's value for the name, the static default when it has none
C8_NoneReadsHostAtFirstRead ==
    [][(ret'.op = "get" /\ ret'.via = "conf" /\ ret'.name \in DefaultNames
          /\ last_signal.seen /\ last_signal.value.tag = "none") =>
          LET m == IF heap[settings].tag = "none" THEN HostMapping
                   ELSE heap[settings].val
          IN  /\ ret'.value = Resolved(m, ret'.name)
              /\ heap'[settings] = Dict(m)
      ]_vars

\* C8 witness: after a signal with None, AND_KEY was read and is not the
\* static default
C8_Witness ==
    /\ GotSetting({"AND_KEY"})
    /\ last_signal.seen
    /\ last_signal.value.tag = "none"
    /\ ret.value = "all_of"

\* the names create_search_query_input_type gives the combinator fields
FactoryNames == [k \in {"AND_KEY", "OR_KEY", "NOT_KEY"} |-> WouldReturn(it_settings, k).value]

\* the five names are pairwise distinct
NamesDistinct ==
    Cardinality({"value", "config", FactoryNames["AND_KEY"], FactoryNames["OR_KEY"],
                 FactoryNames["NOT_KEY"]}) = 5

\* C9 as stated: for every user configuration the query input type has three
\* combinator fields with pairwise distinct names, distinct from value and
\* config, so it has five fields and keeps value and config
C9_AlwaysFiveFields ==
    it_settings # 0 =>
        /\ Cardinality(DOMAIN SearchQueryInputType) = 5
        /\ Cardinality(CombinatorNames(SearchQueryInputType)) = 3
        /\ SearchQueryInputType["value"] = "Query value"
        /\ SearchQueryInputType["config"] = "Query config"

\* C9 as amended: the query input type has one field for each distinct name
\* among value, config and the three names the settings give; when those five
\* names are pairwise distinct it has five fields, value and config as
\* declared and the three combinator fields under their names; when names
\* coincide the later entry (value, config, And, Or, Not in that order)
\* replaces the earlier one and the type has fewer than five fields
C9_OneFieldPerDistinctName ==
    it_settings # 0 =>
        LET t == SearchQueryInputType
            a == FactoryNames["AND_KEY"]
            o == FactoryNames["OR_KEY"]
            n == FactoryNames["NOT_KEY"]
        IN  /\ DOMAIN t = {"value", "config", a, o, n}
            /\ t[n] = "Not field"
            /\ o # n => t[o] = "Or field"
            /\ a \notin {o, n} => t[a] = "And field"
            /\ "config" \notin {a, o, n} => t["config"] = "Query config"
            /\ "value" \notin {a, o, n} => t["value"] = "Query value"
            /\ NamesDistinct => Cardinality(DOMAIN t) = 5 /\ CombinatorNames(t) = {a, o, n}
            /\ ~NamesDistinct => Cardinality(DOMAIN t) < 5

\* C9 witness: the type was built from a user configuration that renames a
\* combinator and has five fields
C9_Witness ==
    /\ it_settings # 0
    /\ NamesDistinct
    /\ FactoryNames["AND_KEY"] = "all_of"
    /\ Cardinality(DOMAIN SearchQueryInputType) = 5

\* what the reader's object would return is the same before and after a step
ReaderSnapshotKept(S) ==
    \A name \in S : WouldReturn(reader_ref, name)' = WouldReturn(reader_ref, name)

\* C10 as stated: an object a reader obtained before a reload returns, for
\* every name, the same result after any later signal, read or change of the
\* host configuration
C10_ReaderSnapshot ==
    [][(reader_ref # 0 /\ reader_ref # settings /\ ret'.op # "acquire") =>
          ReaderSnapshotKept(Names)
      ]_vars

\* C10 as amended: an object a reader holds whose user mapping is resolved
\* (it was constructed from a mapping, or a default-set name was read from
\* it) returns, for every name, the same result after any later signal, read
\* or change of the host configuration, and its user mapping stays as it is;
\* an object constructed from None and not read yet keeps only the results
\* for the fixed and the unknown names
C10_ResolvedReaderSnapshot ==
    [][(reader_ref # 0 /\ ret'.op # "acquire") =>
          /\ ReaderSnapshotKept(Names \ DefaultNames)
          /\ heap[reader_ref].tag = "dict" =>
                 /\ ReaderSnapshotKept(Names)
                 /\ heap'[reader_ref'] = heap[reader_ref]
      ]_vars

\* C10 witness: the reader read a name its mapping holds from an object that a
\* reload replaced, while the host configuration and conf.settings hold
\* other mappings
C10_Witness ==
    /\ reader_ref # 0
    /\ reader_ref # settings
    /\ heap[reader_ref].tag = "dict"
    /\ ret.op = "get"
    /\ ret.via = "reader"
    /\ ret.name \in DOMAIN heap[reader_ref].val
    /\ ret.name \in DefaultNames
    /\ HostMapping # heap[reader_ref].val
    /\ heap[settings] # heap[reader_ref]

====
